---- MODULE Spec2Model ----
(***************************************************************************)
(* InfoGenius Free: the credential store and the retry-rotation executor   *)
(* of services/geminiService.ts, and the controller (App) that sequences   *)
(* research, image generation and image editing and keeps the History.     *)
(*                                                                         *)
(* Texts (topics, credential lists, credentials) are sequences of          *)
(* one-character strings.  A failure is an error object, named by a        *)
(* string; MessageOf gives its message as a text.                          *)
(*                                                                         *)
(* The handlers run on the single JavaScript thread: one action is one     *)
(* run-to-completion step, from a user event or a provider response up to  *)
(* the next await.  State set by a handler is committed (rendered) before  *)
(* the next user event is dispatched.                                      *)
(*                                                                         *)
(* Date.now() reads the clock now.  A provider round trip takes at least   *)
(* one millisecond: every provider response advances the clock by one.     *)
(***************************************************************************)
EXTENDS Integers, Sequences, FiniteSets, TLC

VARIABLES
    customKeys,            \* geminiService.ts: the credential store
    savedKeys,             \* localStorage item 'infogenius_api_keys'
    isLoading,             \* App state: the busy flag
    loadingStep,           \* App state
    loadingFacts,          \* App state
    error,                 \* App state: the user-facing error category
    showKeyModal,          \* App state
    imageHistory,          \* App state: History, newest first
    currentSearchResults,  \* App state
    calls,                 \* the orchestrations in flight, each at an await
    lastExec,              \* the executor invocation that finished last
    now,                   \* the clock read by Date.now()
    exchange               \* the last exchange with the provider: the inputs
                           \* of the call, the request sent and the response
                           \* the operation ran on; recorded in the runs of
                           \* the service functions (SpecOps)

vars == <<customKeys, savedKeys, isLoading, loadingStep, loadingFacts, error,
          showKeyModal, imageHistory, currentSearchResults, calls, lastExec,
          now, exchange>>

----------------------------------------------------------------------------
(* Bounds *)

\* The clock stops the model: no provider response arrives at MaxClock.
MaxClock == 4

----------------------------------------------------------------------------
(* Texts *)

\* String.prototype.includes: p occurs in s as a contiguous subsequence.
Includes(s, p) ==
    \E i \in 0..(Len(s) - Len(p)) : SubSeq(s, i + 1, i + Len(p)) = p

IsSpace(c) == c \in {" ", "\n"}

\* A test of the length alone, without the trim
NonEmpty(s) == Len(s) > 0

\* s.trim().length > 0
NonBlank(s) == \E i \in 1..Len(s) : ~IsSpace(s[i])

\* Index of the first "\n" of s at or after position i, Len(s) + 1 if none.
RECURSIVE NextNewline(_, _)
NextNewline(s, i) ==
    IF i > Len(s) THEN Len(s) + 1
    ELSE IF s[i] = "\n" THEN i
         ELSE NextNewline(s, i + 1)

\* String.prototype.split('\n'): the pieces between newlines, <<"">> for "".
RECURSIVE SplitLines(_)
SplitLines(s) ==
    LET n == NextNewline(s, 1) IN
    IF n > Len(s) THEN <<s>>
    ELSE <<SubSeq(s, 1, n - 1)>> \o SplitLines(SubSeq(s, n + 1, Len(s)))

----------------------------------------------------------------------------
(* Credential store *)

\* A store that takes the list as supplied
setApiKeysUnfiltered(keys) == keys

\* setApiKeys: the new value of customKeys
setApiKeys(keys) == SelectSeq(keys, NonBlank)

\* The lines handed to setApiKeys by the mount effect and by handleSaveKeys.
KeysOfInput(text) == SelectSeq(SplitLines(text), NonBlank)

\* The absent localStorage item (getItem returns null).
NoItem == <<"null">>

\* Contents of the credential textarea the user may save.
KeyInputs ==
    { <<>>,
      <<"a">>,
      <<" ", "\n", "a", "\n", "b">> }

\* createAi without the fallback to the environment's key
createAiNoDefault(key) == key

\* createAi: the credential the client is built with, key || process.env.API_KEY
EnvKey == <<"$">>
NoKey == <<>>
createAi(key) == IF key # NoKey THEN key ELSE EnvKey

----------------------------------------------------------------------------
(* Failures *)

\* Error objects the provider call may reject with.
ProviderErrors ==
    { "E429", "E403", "Equota", "EQuotaExceeded", "Ekey", "EPERMISSION",
      "ERESOURCE", "E400", "E404", "ESAFETY", "ENoMessage" }

\* lastError before any failure (undefined)
NoErr == "undefined"

\* err.message; has = FALSE when the error object carries no message.
Msg(text) == [has |-> TRUE, text |-> text]
MessageOf(err) ==
    CASE err = "E429" -> Msg(<<"g", "o", "t", " ", "4", "2", "9">>)
      [] err = "E403" -> Msg(<<"4", "0", "3">>)
      [] err = "Equota" -> Msg(<<"q", "u", "o", "t", "a">>)
      [] err = "EQuotaExceeded" ->
           Msg(<<"Q", "u", "o", "t", "a", "E", "x", "c", "e", "e", "d", "e", "d">>)
      [] err = "Ekey" -> Msg(<<"b", "a", "d", " ", "k", "e", "y">>)
      [] err = "EPERMISSION" ->
           Msg(<<"P", "E", "R", "M", "I", "S", "S", "I", "O", "N", "_",
                 "D", "E", "N", "I", "E", "D">>)
      [] err = "ERESOURCE" ->
           Msg(<<"R", "E", "S", "O", "U", "R", "C", "E", "_",
                 "E", "X", "H", "A", "U", "S", "T", "E", "D">>)
      [] err = "E400" -> Msg(<<"4", "0", "0">>)
      [] err = "E404" -> Msg(<<"4", "0", "4">>)
      [] err = "ESAFETY" -> Msg(<<"S", "A", "F", "E", "T", "Y">>)
      [] err = "EGenerate" ->
           Msg(<<"F", "a", "i", "l", "e", "d", " ", "t", "o", " ",
                 "g", "e", "n", "e", "r", "a", "t", "e", " ",
                 "i", "m", "a", "g", "e">>)
      [] err = "EEdit" ->
           Msg(<<"F", "a", "i", "l", "e", "d", " ", "t", "o", " ",
                 "e", "d", "i", "t", " ", "i", "m", "a", "g", "e">>)
      [] err = "EAllKeys" ->
           Msg(<<"A", "l", "l", " ", "A", "P", "I", " ", "k", "e", "y", "s", " ",
                 "f", "a", "i", "l", "e", "d", ".">>)
      [] OTHER -> [has |-> FALSE, text |-> <<>>]

\* err.message?.includes(p)
MessageIncludes(err, p) ==
    MessageOf(err).has /\ Includes(MessageOf(err).text, p)

\* A classification that retries the failures that have no message
isRetryableNoMessage(err) == ~MessageOf(err).has

\* A classification that retries after every failure that has a message
isRetryableAnyMessage(err) == MessageOf(err).has

\* executeWithRetry: isRetryable
isRetryable(err) ==
    \/ MessageIncludes(err, <<"4", "2", "9">>)
    \/ MessageIncludes(err, <<"4", "0", "3">>)
    \/ MessageIncludes(err, <<"q", "u", "o", "t", "a">>)
    \/ MessageIncludes(err, <<"k", "e", "y">>)
    \/ MessageIncludes(err, <<"P", "E", "R", "M", "I", "S", "S", "I", "O", "N", "_",
                              "D", "E", "N", "I", "E", "D">>)
    \/ MessageIncludes(err, <<"R", "E", "S", "O", "U", "R", "C", "E", "_",
                              "E", "X", "H", "A", "U", "S", "T", "E", "D">>)

----------------------------------------------------------------------------
(* Provider responses and the three operations *)

NoData == <<>>
NoResearch ==
    [imagePrompt |-> <<>>, facts |-> <<>>, searchResults |-> <<>>,
     articleContent |-> <<>>]
NoVal == [research |-> NoResearch, data |-> NoData]

\* Research results as returned by researchTopicForPrompt's operation.
ResearchResults ==
    { [imagePrompt |-> <<"P", "1">>, facts |-> << <<"f">> >>,
       searchResults |-> << [title |-> <<"t">>, url |-> <<"u">>] >>,
       articleContent |-> <<"A", "1">>],
      [imagePrompt |-> <<"P", "2">>, facts |-> <<>>,
       searchResults |-> <<>>,
       articleContent |-> <<"A", "2">>] }

\* Content parts of an image response: text-only or carrying inline data.
TextPart == [inline |-> FALSE, data |-> ""]
ImagePart(payload) == [inline |-> TRUE, data |-> payload]
ImageResponses ==
    { <<TextPart>>,
      <<TextPart, ImagePart("AA"), ImagePart("BB")>> }
NoParts == <<>>

\* What the provider may answer to the outstanding attempt of operation op,
\* its rejections drawn from errs.
Rejection(err) ==
    [fails |-> TRUE, err |-> err, research |-> NoResearch, parts |-> NoParts]
ProviderResponses(op, errs) ==
    { Rejection(err) : err \in errs }
    \cup (IF op = "research"
          THEN { [fails |-> FALSE, err |-> NoErr, research |-> r, parts |-> NoParts] :
                   r \in ResearchResults }
          ELSE { [fails |-> FALSE, err |-> NoErr, research |-> NoResearch, parts |-> ps] :
                   ps \in ImageResponses })

\* A data URI as its tokens: "data:", the mime type, ";base64,", the payload.
PngUri(payload) == <<"data:", "image/png", ";base64,", payload>>

\* The result of one run of an operation: a value or a thrown error.
Returned(val) == [ok |-> TRUE, err |-> NoErr, val |-> val]
Thrown(err) == [ok |-> FALSE, err |-> err, val |-> NoVal]

\* A test that takes any inline part, whatever its data
HasInlineData(part) == part.inline

\* part.inlineData && part.inlineData.data
HasImage(part) == part.inline /\ part.data # ""

\* The scan of the response's parts shared by generate and edit.
RECURSIVE FirstImage(_, _)
FirstImage(parts, failure) ==
    IF parts = <<>> THEN Thrown(failure)
    ELSE IF HasImage(Head(parts))
         THEN Returned([research |-> NoResearch, data |-> PngUri(Head(parts).data)])
         ELSE FirstImage(Tail(parts), failure)

\* The operation passed to executeWithRetry, run on the provider's response.
operation(op, resp) ==
    IF resp.fails THEN Thrown(resp.err)
    ELSE CASE op = "research" ->
                Returned([research |-> resp.research, data |-> NoData])
           [] op = "image" -> FirstImage(resp.parts, "EGenerate")
           [] OTHER -> FirstImage(resp.parts, "EEdit")

\* editInfographicImage: cleanBase64 and mimeType of the request
cleanBase64(uri) ==
    IF /\ Len(uri) >= 3
       /\ uri[1] = "data:"
       /\ uri[2] \in {"image/png", "image/jpeg", "image/jpg"}
       /\ uri[3] = ";base64,"
    THEN SubSeq(uri, 4, Len(uri))
    ELSE uri
AlphaImageTypes ==
    {"image/png", "image/jpeg", "image/jpg", "image/webp", "image/svg+xml"}
\* The mime type the fix variant sends, whatever the input
mimeTypeJpeg(uri) == "image/jpeg"

mimeType(uri) ==
    IF /\ Len(uri) >= 3
       /\ uri[1] = "data:"
       /\ uri[2] \in AlphaImageTypes
       /\ uri[3] = ";base64,"
    THEN uri[2]
    ELSE "image/png"

\* The request an operation sends with every attempt.
Request(model, text, data, mime) ==
    [model |-> model, text |-> text, data |-> data, mimeType |-> mime]
researchRequest(topic, level, style, language) ==
    Request("TEXT_MODEL", <<topic, level, style, language>>, NoData, "")

\* An image request that leaves the prompt out
imageRequestUnprompted(prompt) == Request("IMAGE_MODEL", <<>>, NoData, "")

imageRequest(prompt) == Request("IMAGE_MODEL", prompt, NoData, "")
editRequest(uri, editPrompt) ==
    Request("EDIT_MODEL", editPrompt, cleanBase64(uri), mimeType(uri))

----------------------------------------------------------------------------
(* researchTopicForPrompt: the parse of the model text and of the grounding *)

\* A text is a sequence of characters; a literal of the source that no
\* operation looks into is kept as one element.

LowerCase ==
    <<"a", "b", "c", "d", "e", "f", "g", "h", "i", "j", "k", "l", "m",
      "n", "o", "p", "q", "r", "s", "t", "u", "v", "w", "x", "y", "z">>
UpperCase ==
    <<"A", "B", "C", "D", "E", "F", "G", "H", "I", "J", "K", "L", "M",
      "N", "O", "P", "Q", "R", "S", "T", "U", "V", "W", "X", "Y", "Z">>

\* The i flag: characters are compared with their case folded.
Fold(c) ==
    IF \E k \in 1..26 : LowerCase[k] = c
    THEN UpperCase[CHOOSE k \in 1..26 : LowerCase[k] = c]
    ELSE c

\* The literal p matches s at position i, whatever the case.
MatchesAt(s, i, p) ==
    /\ i + Len(p) - 1 <= Len(s)
    /\ \A k \in 1..Len(p) : Fold(s[i + k - 1]) = Fold(p[k])

\* The first position at or after i where one of the literals ps matches,
\* Len(s) + 1 (the end of the input, $) if there is none.
RECURSIVE FirstMatch(_, _, _)
FirstMatch(s, i, ps) ==
    IF i > Len(s) THEN Len(s) + 1
    ELSE IF \E p \in ps : MatchesAt(s, i, p) THEN i
         ELSE FirstMatch(s, i + 1, ps)

\* \s*: the first position at or after i that holds no white space.
RECURSIVE SkipSpaces(_, _)
SkipSpaces(s, i) ==
    IF i > Len(s) THEN Len(s) + 1
    ELSE IF IsSpace(s[i]) THEN SkipSpaces(s, i + 1)
         ELSE i

\* The last position at or before i that holds no white space, 0 if none.
RECURSIVE LastNonSpace(_, _)
LastNonSpace(s, i) ==
    IF i < 1 THEN 0
    ELSE IF IsSpace(s[i]) THEN LastNonSpace(s, i - 1)
         ELSE i

\* String.prototype.trim
trim(s) == SubSeq(s, SkipSpaces(s, 1), LastNonSpace(s, Len(s)))

FACTS == <<"F", "A", "C", "T", "S", ":">>
ARTICLE == <<"A", "R", "T", "I", "C", "L", "E", ":">>
IMAGE_PROMPT ==
    <<"I", "M", "A", "G", "E", "_", "P", "R", "O", "M", "P", "T", ":">>

\* text.match(/HEADER:\s*([\s\S]*?)(?=STOP:|...|$)/i): the leftmost HEADER,
\* the white space after it, then the shortest text up to a STOP or to the
\* end of the input.  group is the capture, matched tells whether the
\* expression matched at all.
match(text, header, stops) ==
    LET h == FirstMatch(text, 1, {header})
        start == SkipSpaces(text, h + Len(header))
        end == FirstMatch(text, start, stops)
    IN  IF h > Len(text) THEN [matched |-> FALSE, group |-> <<>>]
        ELSE [matched |-> TRUE, group |-> SubSeq(text, start, end - 1)]

factsMatch(text) == match(text, FACTS, {ARTICLE, IMAGE_PROMPT})
articleMatch(text) == match(text, ARTICLE, {IMAGE_PROMPT})
promptMatch(text) == match(text, IMAGE_PROMPT, {})

\* f.replace(/^-\s*/, '')
stripMarker(f) ==
    IF Len(f) >= 1 /\ f[1] = "-" THEN SubSeq(f, SkipSpaces(f, 2), Len(f))
    ELSE f

\* .slice(0, 5)
MaxFacts == 5

\* Facts without the cap
factsOfUncapped(text) ==
    LET m == factsMatch(text)
        factsRaw == IF m.matched THEN trim(m.group) ELSE <<>>
        lines == SplitLines(factsRaw)
        mapped == [k \in 1..Len(lines) |-> trim(stripMarker(lines[k]))]
        nonEmpty(f) == Len(f) > 0
    IN  SelectSeq(mapped, nonEmpty)

\* The facts of the model text.
factsOf(text) ==
    LET m == factsMatch(text)
        factsRaw == IF m.matched THEN trim(m.group) ELSE <<>>
        lines == SplitLines(factsRaw)
        mapped == [k \in 1..Len(lines) |-> trim(stripMarker(lines[k]))]
        nonEmpty(f) == Len(f) > 0
        filtered == SelectSeq(mapped, nonEmpty)
    IN  SubSeq(filtered, 1, IF Len(filtered) < MaxFacts THEN Len(filtered)
                            ELSE MaxFacts)

ArticlePlaceholder == <<"Conteúdo explicativo não gerado.">>

articleContentOf(text) ==
    LET m == articleMatch(text) IN
    IF m.matched THEN trim(m.group) ELSE ArticlePlaceholder

getLevelInstruction(level) ==
    CASE level = "High School" -> <<"Target Audience: High School. Style: Standard Textbook. Clean lines, clear labels, accurate maps or diagrams. Explanation tone: Educational, structured, definitions of key terms.">>
      [] level = "Expert" -> <<"Target Audience: Industry Expert. Style: Technical Blueprint/Schematic. Extremely dense detail, monochrome or technical coloring, precise annotations. Explanation tone: Technical whitepaper, high density of information.">>
      [] OTHER -> <<"Target Audience: General Public. Style: Clear and engaging.">>

getStyleInstruction(style) ==
    CASE style = "Sketch" -> <<"Aesthetic: Da Vinci Notebook. Ink on parchment sketch, handwritten annotations style, rough but accurate lines.">>
      [] OTHER -> <<"Aesthetic: High-quality digital scientific illustration. Clean, modern, highly detailed.">>

\* A default prompt that does not name the topic
synthesizedPromptNoTopic(topic, level, style) ==
    <<"Create a detailed infographic about ">> \o <<".", " ">>
    \o getLevelInstruction(level) \o <<" ">> \o getStyleInstruction(style)

\* `Create a detailed infographic about ${topic}. ${levelInstr} ${styleInstr}`
synthesizedPrompt(topic, level, style) ==
    <<"Create a detailed infographic about ">> \o topic \o <<".", " ">>
    \o getLevelInstruction(level) \o <<" ">> \o getStyleInstruction(style)

imagePromptOf(text, topic, level, style) ==
    LET m == promptMatch(text) IN
    IF m.matched THEN trim(m.group) ELSE synthesizedPrompt(topic, level, style)

\* A field of a grounding chunk: has = FALSE when the object does not carry it.
Field(text) == [has |-> TRUE, text |-> text]
NoField == [has |-> FALSE, text |-> <<>>]

\* A grounding chunk; web = FALSE when it has no web reference.
Chunk(uri, title) == [web |-> TRUE, uri |-> uri, title |-> title]
NoWebChunk == [web |-> FALSE, uri |-> NoField, title |-> NoField]

\* chunk.web?.uri && chunk.web?.title: both present and not the empty string
hasUriAndTitle(chunk) ==
    /\ chunk.web
    /\ chunk.uri.has /\ chunk.uri.text # <<>>
    /\ chunk.title.has /\ chunk.title.text # <<>>

\* The items pushed to searchResults, in the order of the chunks.
pushed(chunks) ==
    LET kept == SelectSeq(chunks, hasUriAndTitle) IN
    [k \in 1..Len(kept) |-> [title |-> kept[k].title.text, url |-> kept[k].uri.text]]

\* A map that keeps the first value set for a key
mapSetKeepFirst(entries, item) ==
    IF \E k \in 1..Len(entries) : entries[k].url = item.url
    THEN entries
    ELSE Append(entries, item)

\* Map.prototype.set(item.url, item) on the entries in insertion order: an
\* existing key keeps its position and takes the new value.
mapSet(entries, item) ==
    IF \E k \in 1..Len(entries) : entries[k].url = item.url
    THEN [k \in 1..Len(entries) |->
             IF entries[k].url = item.url THEN item ELSE entries[k]]
    ELSE Append(entries, item)

\* Array.from(new Map(items.map(item => [item.url, item])).values())
RECURSIVE newMap(_, _)
newMap(items, entries) ==
    IF items = <<>> THEN entries
    ELSE newMap(Tail(items), mapSet(entries, Head(items)))

uniqueResults(searchResults) == newMap(searchResults, <<>>)

\* A response to the research request: the model text and the grounding
\* chunks; grounded = FALSE when the response carries no chunks at all.
ResearchResponse(text, grounded, chunks) ==
    [fails |-> FALSE, err |-> NoErr, text |-> text, grounded |-> grounded,
     chunks |-> chunks]

\* The operation of researchTopicForPrompt, run on the provider's response.
researchTopicForPrompt(topic, level, style, language, resp) ==
    IF resp.fails THEN Thrown(resp.err)
    ELSE LET searchResults == IF resp.grounded THEN pushed(resp.chunks) ELSE <<>>
         IN  Returned([research |->
                          [imagePrompt |-> imagePromptOf(resp.text, topic, level, style),
                           facts |-> factsOf(resp.text),
                           searchResults |-> uniqueResults(searchResults),
                           articleContent |-> articleContentOf(resp.text)],
                       data |-> NoData])

----------------------------------------------------------------------------
(* executeWithRetry *)

\* The keys taken from the end of the array
keyAtReversed(keys, idx) == keys[Len(keys) + 1 - idx]

\* The key at position idx of the store as it is when the attempt starts
keyAtStore(keys, idx) == IF idx <= Len(customKeys) THEN customKeys[idx] ELSE NoKey

\* for (const key of customKeys): the key of iteration idx
keyAt(keys, idx) == keys[idx]

\* The generic failure thrown whatever was recorded
exhaustedGeneric(lastError) == "EAllKeys"

\* throw lastError || new Error("All API keys failed.")
exhausted(lastError) == IF lastError = NoErr THEN "EAllKeys" ELSE lastError

\* An entry that starts an attempt with every key of the store at once
execStartAll(store) ==
    IF Len(store) = 0
    THEN [keys |-> store, idx |-> 0, cur |-> createAi(NoKey),
          log |-> <<>>, lastError |-> NoErr, notices |-> 0]
    ELSE [keys |-> store, idx |-> Len(store),
          cur |-> createAi(keyAt(store, Len(store))),
          log |-> <<>>, lastError |-> NoErr, notices |-> 0]

\* An entry that resumes at the position the last finished invocation over
\* the same list stopped at
execStartResumed(store) ==
    IF Len(store) = 0
    THEN [keys |-> store, idx |-> 0, cur |-> createAi(NoKey),
          log |-> <<>>, lastError |-> NoErr, notices |-> 0]
    ELSE LET pos == IF lastExec.keys = store /\ Len(lastExec.log) >= 1
                    THEN Len(lastExec.log) ELSE 1
         IN  [keys |-> store, idx |-> pos, cur |-> createAi(keyAt(store, pos)),
              log |-> <<>>, lastError |-> NoErr, notices |-> 0]

\* Entry into executeWithRetry up to the first attempt's await.  The loop
\* iterates the array customKeys refers to at this moment.
execStart(store) ==
    IF Len(store) = 0
    THEN [keys |-> store, idx |-> 0, cur |-> createAi(NoKey),
          log |-> <<>>, lastError |-> NoErr, notices |-> 0]
    ELSE [keys |-> store, idx |-> 1, cur |-> createAi(keyAt(store, 1)),
          log |-> <<>>, lastError |-> NoErr, notices |-> 0]

\* An iterator that starts over at the first key instead of finishing
iterNextWrap(keys, idx) == [done |-> FALSE, idx |-> (idx % Len(keys)) + 1]

\* The iterator of the for-of loop, asked for the element after position idx.
iterNext(keys, idx) ==
    IF idx < Len(keys) THEN [done |-> FALSE, idx |-> idx + 1]
    ELSE [done |-> TRUE, idx |-> idx]

\* A catch block that goes on with the loop after any failure
catchActionContinue(err) == "continue"

\* The catch block's decision: rethrow the failure or go on with the loop.
catchAction(err) == IF ~isRetryable(err) THEN "throw" ELSE "continue"

\* Resumption of executeWithRetry when the outstanding attempt's operation
\* finished with res: the invocation returns, throws, or awaits the attempt
\* with the next key.  log records the attempts made, notices counts the
\* console.warn notices emitted.
execStep(x, res) ==
    LET log2 == Append(x.log, [key |-> x.cur, ok |-> res.ok,
                               err |-> res.err, val |-> res.val])
        done(status, err, lastError, warned) ==
            [status |-> status, err |-> err, val |-> res.val,
             x |-> [x EXCEPT !.log = log2, !.lastError = lastError,
                             !.notices = x.notices + warned]]
        it == iterNext(x.keys, x.idx)
    IN  IF res.ok THEN done("return", NoErr, x.lastError, 0)
        ELSE IF x.idx = 0 THEN done("throw", res.err, x.lastError, 0)
        ELSE IF catchAction(res.err) = "throw"
             THEN done("throw", res.err, res.err, 0)
        ELSE IF ~it.done
             THEN [status |-> "pending", err |-> NoErr, val |-> NoVal,
                   x |-> [x EXCEPT !.idx = it.idx,
                                   !.cur = createAi(keyAt(x.keys, it.idx)),
                                   !.log = log2,
                                   !.lastError = res.err,
                                   !.notices = x.notices + 1]]
             ELSE done("throw", exhausted(res.err), res.err, 1)

----------------------------------------------------------------------------
(* Controller (App) *)

Topics == { <<>>, <<" ">>, <<"v">> }
EditPrompts == { <<"e">> }

\* The selections of the three selectors a topic is submitted with: the
\* initial ones and one that differs from them in every selector.
Settings ==
    { [level |-> "High School", style |-> "Default", language |-> "Portuguese"],
      [level |-> "Expert", style |-> "Sketch", language |-> "English"] }

\* The values of the error state: null or a message of t.errors.
NoError == "null"

\* An id that does not follow the clock
DateNowFrozen(clock) == "0"

\* Date.now().toString()
DateNowString(clock) == ToString(clock)

\* The GeneratedImage built by handleGenerate and by handleEdit.
GeneratedImage(clock, data, prompt, level, style, language, articleContent) ==
    [id |-> DateNowString(clock), data |-> data, prompt |-> prompt,
     timestamp |-> clock, level |-> level, style |-> style,
     language |-> language, articleContent |-> articleContent]

\* A completion that keeps only the new entry
prependAlone(newImage, closedHistory) == <<newImage>>

\* setImageHistory([newImage, ...imageHistory]), imageHistory being the value
\* the handler closed over when it was invoked.
prepend(newImage, closedHistory) == <<newImage>> \o closedHistory

\* handleGenerate's catch: the error shown and whether the key modal opens
generateFailure(err) ==
    IF /\ MessageOf(err).has
       /\ MessageOf(err).text # <<>>
       /\ \/ MessageIncludes(err, <<"R", "e", "q", "u", "e", "s", "t", "e", "d", " ",
                                     "e", "n", "t", "i", "t", "y", " ", "w", "a", "s", " ",
                                     "n", "o", "t", " ", "f", "o", "u", "n", "d">>)
          \/ MessageIncludes(err, <<"4", "0", "4">>)
          \/ MessageIncludes(err, <<"4", "0", "3">>)
          \/ MessageIncludes(err, <<"k", "e", "y">>)
          \/ MessageIncludes(err, <<"P", "E", "R", "M", "I", "S", "S", "I", "O", "N", "_",
                                     "D", "E", "N", "I", "E", "D">>)
          \/ MessageIncludes(err, <<"R", "E", "S", "O", "U", "R", "C", "E", "_",
                                     "E", "X", "H", "A", "U", "S", "T", "E", "D">>)
    THEN [error |-> "quota", modal |-> TRUE]
    ELSE [error |-> "generic", modal |-> FALSE]

\* handleEdit's catch
editFailure(err) ==
    IF /\ MessageOf(err).has
       /\ MessageOf(err).text # <<>>
       /\ \/ MessageIncludes(err, <<"R", "e", "q", "u", "e", "s", "t", "e", "d", " ",
                                     "e", "n", "t", "i", "t", "y", " ", "w", "a", "s", " ",
                                     "n", "o", "t", " ", "f", "o", "u", "n", "d">>)
          \/ MessageIncludes(err, <<"4", "0", "4">>)
          \/ MessageIncludes(err, <<"4", "0", "3">>)
    THEN [error |-> "accessDenied", modal |-> TRUE]
    ELSE [error |-> "modFailed", modal |-> FALSE]

\* The Infographic rendered also while a call is in flight
InfographicShownWhileLoading == Len(imageHistory) > 0

\* The Infographic, whose onEdit is handleEdit, is rendered only then.
InfographicShown == Len(imageHistory) > 0 /\ ~isLoading

\* The record of a finished executor invocation.
Finished(op, step) ==
    [op |-> op, keys |-> step.x.keys, log |-> step.x.log,
     notices |-> step.x.notices,
     status |-> step.status, err |-> step.err, val |-> step.val]

\* No exchange has been recorded.
NoExchange ==
    [input |-> [op |-> "none"], req |-> Request("none", <<>>, NoData, ""),
     resp |-> [fails |-> FALSE, err |-> NoErr]]

NoExec ==
    [op |-> "none", keys |-> <<>>, log |-> <<>>, notices |-> 0,
     status |-> "none", err |-> NoErr, val |-> NoVal]

\* A mount effect that does not read the item
loadKeysUnread(saved) == <<>>

\* The mount effect that loads the keys: the store after it ran on the item
\* read from localStorage; if (savedKeys) is false for null and for "".
loadKeys(saved) ==
    IF saved = NoItem \/ saved = <<>>
    THEN <<>>
    ELSE setApiKeys(KeysOfInput(saved))

Init ==
    /\ savedKeys \in {NoItem} \cup KeyInputs
    /\ customKeys = loadKeys(savedKeys)
    /\ isLoading = FALSE
    /\ loadingStep = 0
    /\ loadingFacts = <<>>
    /\ error = NoError
    /\ showKeyModal = FALSE
    /\ imageHistory = <<>>
    /\ currentSearchResults = <<>>
    /\ calls = <<>>
    /\ lastExec = NoExec
    /\ now = 0
    /\ exchange = NoExchange

OpenKeyModal ==
    /\ ~showKeyModal
    /\ showKeyModal' = TRUE
    /\ UNCHANGED <<customKeys, savedKeys, isLoading, loadingStep, loadingFacts,
                   error, imageHistory, currentSearchResults, calls, lastExec, now>>
    /\ UNCHANGED exchange

CloseKeyModal ==
    /\ showKeyModal
    /\ showKeyModal' = FALSE
    /\ UNCHANGED <<customKeys, savedKeys, isLoading, loadingStep, loadingFacts,
                   error, imageHistory, currentSearchResults, calls, lastExec, now>>
    /\ UNCHANGED exchange

\* handleSaveKeys with the textarea holding apiKeysInput
handleSaveKeysOf(apiKeysInput) ==
    /\ showKeyModal
    /\ savedKeys' = apiKeysInput
    /\ customKeys' = setApiKeys(KeysOfInput(apiKeysInput))
    /\ showKeyModal' = FALSE
    /\ error' = NoError
    /\ UNCHANGED <<isLoading, loadingStep, loadingFacts, imageHistory,
                   currentSearchResults, calls, lastExec, now>>
    /\ UNCHANGED exchange

handleSaveKeys == \E apiKeysInput \in KeyInputs : handleSaveKeysOf(apiKeysInput)

\* handleGenerate up to its first await
handleGenerateOf(topic, selected) ==
    /\ ~isLoading
    /\   LET level == selected.level
             style == selected.style
             language == selected.language
         IN
         IF ~NonBlank(topic)
         THEN /\ error' = "topicRequired"
              /\ UNCHANGED <<isLoading, loadingStep, loadingFacts,
                             currentSearchResults, calls>>
         ELSE /\ isLoading' = TRUE
              /\ error' = NoError
              /\ loadingStep' = 1
              /\ loadingFacts' = <<>>
              /\ currentSearchResults' = <<>>
              /\ calls' = Append(calls,
                     [kind |-> "generate", op |-> "research",
                      x |-> execStart(customKeys),
                      req |-> researchRequest(topic, level, style, language),
                      imageHistory |-> imageHistory,
                      prompt |-> topic, level |-> level, style |-> style,
                      language |-> language,
                      research |-> NoResearch])
    /\ UNCHANGED <<customKeys, savedKeys, showKeyModal, imageHistory, lastExec, now>>
    /\ UNCHANGED exchange

\* The form is submitted with a topic and the selections of the selectors.
handleGenerate ==
    \E topic \in Topics, selected \in Settings : handleGenerateOf(topic, selected)

\* handleEdit up to its await
handleEdit ==
    /\ InfographicShown
    /\ Len(imageHistory) # 0
    /\ \E editPrompt \in EditPrompts :
         LET currentImage == imageHistory[1] IN
         calls' = Append(calls,
             [kind |-> "edit", op |-> "edit",
              x |-> execStart(customKeys),
              req |-> editRequest(currentImage.data, editPrompt),
              imageHistory |-> imageHistory,
              prompt |-> editPrompt, level |-> currentImage.level,
              style |-> currentImage.style,
              language |-> currentImage.language,
              research |-> NoResearch])
    /\ isLoading' = TRUE
    /\ error' = NoError
    /\ loadingStep' = 2
    /\ UNCHANGED <<customKeys, savedKeys, loadingFacts, showKeyModal,
                   imageHistory, currentSearchResults, lastExec, now>>
    /\ UNCHANGED exchange

\* A restore that prepends without removing the earlier occurrence
restoredCopy(history, img) == <<img>> \o history

\* restoreImage(img): the value handed to setImageHistory
restored(history, img) ==
    LET keep(i) == i.id # img.id
        newHistory == SelectSeq(history, keep)
    IN  <<img>> \o newHistory

\* A click on a thumbnail of the history grid, which shows imageHistory.slice(1)
restoreImage ==
    /\ Len(imageHistory) > 1
    /\ \E n \in 2..Len(imageHistory) :
         imageHistory' = restored(imageHistory, imageHistory[n])
    /\ UNCHANGED <<customKeys, savedKeys, isLoading, loadingStep, loadingFacts,
                   error, showKeyModal, currentSearchResults, calls, lastExec, now>>
    /\ UNCHANGED exchange

\* The rejections the provider answers with in the runs of the controller:
\* retryable ones the controller reports as generic and as quota, and one
\* that is not retryable.
AppErrors == { "E429", "E403", "E400" }

\* The executor step taken when the provider answers resp to the outstanding
\* attempt of calls[i].
Step(i, resp) == execStep(calls[i].x, operation(calls[i].op, resp))

Remove(seq, i) == SubSeq(seq, 1, i - 1) \o SubSeq(seq, i + 1, Len(seq))

\* An attempt fails with a retryable failure and the loop awaits the attempt
\* with the next key.
Rotate ==
    /\ now < MaxClock
    /\ now' = now + 1
    /\ \E i \in 1..Len(calls) : \E resp \in ProviderResponses(calls[i].op, AppErrors) :
         LET step == Step(i, resp) IN
         /\ step.status = "pending"
         /\ calls' = [calls EXCEPT ![i].x = step.x]
    /\ UNCHANGED <<customKeys, savedKeys, isLoading, loadingStep, loadingFacts,
                   error, showKeyModal, imageHistory, currentSearchResults,
                   lastExec>>
    /\ UNCHANGED exchange

\* handleGenerate resumes after researchTopicForPrompt and runs up to the
\* await of generateInfographicImage.
ResearchReturns ==
    /\ now < MaxClock
    /\ now' = now + 1
    /\ \E i \in 1..Len(calls) : \E resp \in ProviderResponses(calls[i].op, AppErrors) :
         LET step == Step(i, resp)
             researchResult == step.val.research
         IN
         /\ calls[i].op = "research"
         /\ step.status = "return"
         /\ loadingFacts' = researchResult.facts
         /\ currentSearchResults' = researchResult.searchResults
         /\ loadingStep' = 2
         /\ calls' = [calls EXCEPT ![i] =
                [@ EXCEPT !.op = "image",
                          !.x = execStart(customKeys),
                          !.req = imageRequest(researchResult.imagePrompt),
                          !.research = researchResult]]
         /\ lastExec' = Finished("research", step)
    /\ UNCHANGED <<customKeys, savedKeys, isLoading, error, showKeyModal,
                   imageHistory>>
    /\ UNCHANGED exchange

\* handleGenerate resumes after generateInfographicImage: the new entry is
\* prepended, then the finally block runs.
ImageReturns ==
    /\ now < MaxClock
    /\ now' = now + 1
    /\ \E i \in 1..Len(calls) : \E resp \in ProviderResponses(calls[i].op, AppErrors) :
         LET step == Step(i, resp)
             c == calls[i]
             newImage == GeneratedImage(now', step.val.data, c.prompt, c.level,
                                        c.style, c.language,
                                        c.research.articleContent)
         IN
         /\ c.op = "image"
         /\ step.status = "return"
         /\ imageHistory' = prepend(newImage, c.imageHistory)
         /\ calls' = Remove(calls, i)
         /\ lastExec' = Finished("image", step)
    /\ isLoading' = FALSE
    /\ loadingStep' = 0
    /\ UNCHANGED <<customKeys, savedKeys, loadingFacts, error, showKeyModal,
                   currentSearchResults>>
    /\ UNCHANGED exchange

\* A catch block that starts the failed call over
GenerateThrowsRetrying ==
    /\ now < MaxClock
    /\ now' = now + 1
    /\ \E i \in 1..Len(calls) : \E resp \in ProviderResponses(calls[i].op, AppErrors) :
         LET step == Step(i, resp)
             failure == generateFailure(step.err)
         IN
         /\ calls[i].kind = "generate"
         /\ step.status = "throw"
         /\ error' = failure.error
         /\ showKeyModal' = (showKeyModal \/ failure.modal)
         /\ calls' = [calls EXCEPT ![i].x = execStart(customKeys)]
         /\ lastExec' = Finished(calls[i].op, step)
    /\ UNCHANGED <<customKeys, savedKeys, loadingFacts, imageHistory,
                   currentSearchResults, isLoading, loadingStep>>
    /\ UNCHANGED exchange

\* A catch block that also resets History
GenerateThrowsClearingHistory ==
    /\ now < MaxClock
    /\ now' = now + 1
    /\ \E i \in 1..Len(calls) : \E resp \in ProviderResponses(calls[i].op, AppErrors) :
         LET step == Step(i, resp)
             failure == generateFailure(step.err)
         IN
         /\ calls[i].kind = "generate"
         /\ step.status = "throw"
         /\ error' = failure.error
         /\ showKeyModal' = (showKeyModal \/ failure.modal)
         /\ calls' = Remove(calls, i)
         /\ lastExec' = Finished(calls[i].op, step)
    /\ imageHistory' = <<>>
    /\ isLoading' = FALSE
    /\ loadingStep' = 0
    /\ UNCHANGED <<customKeys, savedKeys, loadingFacts, currentSearchResults>>
    /\ UNCHANGED exchange

\* handleGenerate's catch and finally, after either call threw.
GenerateThrows ==
    /\ now < MaxClock
    /\ now' = now + 1
    /\ \E i \in 1..Len(calls) : \E resp \in ProviderResponses(calls[i].op, AppErrors) :
         LET step == Step(i, resp)
             failure == generateFailure(step.err)
         IN
         /\ calls[i].kind = "generate"
         /\ step.status = "throw"
         /\ error' = failure.error
         /\ showKeyModal' = (showKeyModal \/ failure.modal)
         /\ calls' = Remove(calls, i)
         /\ lastExec' = Finished(calls[i].op, step)
    /\ isLoading' = FALSE
    /\ loadingStep' = 0
    /\ UNCHANGED <<customKeys, savedKeys, loadingFacts, imageHistory,
                   currentSearchResults>>
    /\ UNCHANGED exchange

\* An edit whose entry takes the initial selections instead of its parent's
EditReturnsInitialSettings ==
    /\ now < MaxClock
    /\ now' = now + 1
    /\ \E i \in 1..Len(calls) : \E resp \in ProviderResponses(calls[i].op, AppErrors) :
         LET step == Step(i, resp)
             c == calls[i]
             currentImage == c.imageHistory[1]
             newImage == GeneratedImage(now', step.val.data, c.prompt,
                                        "High School", "Default", "Portuguese",
                                        currentImage.articleContent)
         IN
         /\ c.op = "edit"
         /\ step.status = "return"
         /\ imageHistory' = prepend(newImage, c.imageHistory)
         /\ calls' = Remove(calls, i)
         /\ lastExec' = Finished("edit", step)
    /\ isLoading' = FALSE
    /\ loadingStep' = 0
    /\ UNCHANGED <<customKeys, savedKeys, loadingFacts, error, showKeyModal,
                   currentSearchResults>>
    /\ UNCHANGED exchange

\* handleEdit resumes after editInfographicImage.
EditReturns ==
    /\ now < MaxClock
    /\ now' = now + 1
    /\ \E i \in 1..Len(calls) : \E resp \in ProviderResponses(calls[i].op, AppErrors) :
         LET step == Step(i, resp)
             c == calls[i]
             currentImage == c.imageHistory[1]
             newImage == GeneratedImage(now', step.val.data, c.prompt,
                                        currentImage.level, currentImage.style,
                                        currentImage.language,
                                        currentImage.articleContent)
         IN
         /\ c.op = "edit"
         /\ step.status = "return"
         /\ imageHistory' = prepend(newImage, c.imageHistory)
         /\ calls' = Remove(calls, i)
         /\ lastExec' = Finished("edit", step)
    /\ isLoading' = FALSE
    /\ loadingStep' = 0
    /\ UNCHANGED <<customKeys, savedKeys, loadingFacts, error, showKeyModal,
                   currentSearchResults>>
    /\ UNCHANGED exchange

\* A handler that clears the busy flag at the end of the try block only
EditThrowsBusy ==
    /\ now < MaxClock
    /\ now' = now + 1
    /\ \E i \in 1..Len(calls) : \E resp \in ProviderResponses(calls[i].op, AppErrors) :
         LET step == Step(i, resp)
             failure == editFailure(step.err)
         IN
         /\ calls[i].kind = "edit"
         /\ step.status = "throw"
         /\ error' = failure.error
         /\ showKeyModal' = (showKeyModal \/ failure.modal)
         /\ calls' = Remove(calls, i)
         /\ lastExec' = Finished("edit", step)
    /\ UNCHANGED <<customKeys, savedKeys, loadingFacts, imageHistory,
                   currentSearchResults, isLoading, loadingStep>>
    /\ UNCHANGED exchange

\* handleEdit's catch and finally.
EditThrows ==
    /\ now < MaxClock
    /\ now' = now + 1
    /\ \E i \in 1..Len(calls) : \E resp \in ProviderResponses(calls[i].op, AppErrors) :
         LET step == Step(i, resp)
             failure == editFailure(step.err)
         IN
         /\ calls[i].kind = "edit"
         /\ step.status = "throw"
         /\ error' = failure.error
         /\ showKeyModal' = (showKeyModal \/ failure.modal)
         /\ calls' = Remove(calls, i)
         /\ lastExec' = Finished("edit", step)
    /\ isLoading' = FALSE
    /\ loadingStep' = 0
    /\ UNCHANGED <<customKeys, savedKeys, loadingFacts, imageHistory,
                   currentSearchResults>>
    /\ UNCHANGED exchange

Next ==
    \/ OpenKeyModal
    \/ CloseKeyModal
    \/ handleSaveKeys
    \/ handleGenerate
    \/ handleEdit
    \/ restoreImage
    \/ Rotate
    \/ ResearchReturns
    \/ ImageReturns
    \/ GenerateThrows
    \/ EditReturns
    \/ EditThrows

Spec == Init /\ [][Next]_vars

\* The provider answers the outstanding attempt of a call in flight.
Respond ==
    \/ Rotate
    \/ ResearchReturns
    \/ ImageReturns
    \/ GenerateThrows
    \/ EditReturns
    \/ EditThrows

\* The controller with a provider that answers every attempt: a response
\* that stays possible is eventually delivered.
SpecLive == Init /\ [][Next]_vars /\ WF_vars(Respond)

----------------------------------------------------------------------------
(* The executor on its own: one invocation at a time of an operation through
   executeWithRetry, answered with every rejection of ProviderErrors, while
   setApiKeys may replace the store. *)

KeyA == <<"a">>
KeyB == <<"b">>
KeyC == <<"c">>

\* Lists handed to setApiKeys.
KeyLists ==
    { <<>>, << <<" ">>, <<>> >>, <<KeyA>>, <<KeyB, KeyA>>,
      <<KeyA, <<" ">>, KeyB, KeyC>> }

Operations == { "research", "image", "edit" }

ExecRequest(op) ==
    CASE op = "research" ->
           researchRequest(<<"v">>, "High School", "Default", "Portuguese")
      [] op = "image" -> imageRequest(<<"P", "1">>)
      [] OTHER -> editRequest(PngUri("AA"), <<"e">>)

InitExec ==
    /\ customKeys \in { setApiKeys(keys) : keys \in KeyLists }
    /\ savedKeys = NoItem
    /\ isLoading = FALSE
    /\ loadingStep = 0
    /\ loadingFacts = <<>>
    /\ error = NoError
    /\ showKeyModal = FALSE
    /\ imageHistory = <<>>
    /\ currentSearchResults = <<>>
    /\ calls = <<>>
    /\ lastExec = NoExec
    /\ now = 0
    /\ exchange = NoExchange

\* researchTopicForPrompt, generateInfographicImage or editInfographicImage
\* is called: executeWithRetry runs up to the first attempt's await.
ExecInvoke ==
    /\ calls = <<>>
    /\ \E op \in Operations :
         calls' = <<[kind |-> "exec", op |-> op, x |-> execStart(customKeys),
                    req |-> ExecRequest(op), imageHistory |-> <<>>,
                    prompt |-> <<>>, level |-> "High School",
                    style |-> "Default", language |-> "Portuguese",
                    research |-> NoResearch]>>
    /\ lastExec' = NoExec
    /\ UNCHANGED <<customKeys, savedKeys, isLoading, loadingStep, loadingFacts,
                   error, showKeyModal, imageHistory, currentSearchResults, now>>
    /\ UNCHANGED exchange

\* The provider answers the outstanding attempt.
ExecRespond ==
    /\ calls # <<>>
    /\ \E resp \in ProviderResponses(calls[1].op, ProviderErrors) :
         LET step == Step(1, resp) IN
         IF step.status = "pending"
         THEN /\ calls' = [calls EXCEPT ![1].x = step.x]
              /\ UNCHANGED lastExec
         ELSE /\ calls' = <<>>
              /\ lastExec' = Finished(calls[1].op, step)
    /\ UNCHANGED <<customKeys, savedKeys, isLoading, loadingStep, loadingFacts,
                   error, showKeyModal, imageHistory, currentSearchResults, now>>
    /\ UNCHANGED exchange

\* setApiKeys(keys)
ExecSetApiKeysOf(keys) ==
    /\ customKeys' = setApiKeys(keys)
    /\ UNCHANGED <<savedKeys, isLoading, loadingStep, loadingFacts, error,
                   showKeyModal, imageHistory, currentSearchResults, calls,
                   lastExec, now>>
    /\ UNCHANGED exchange

ExecSetApiKeys == \E keys \in KeyLists : ExecSetApiKeysOf(keys)

NextExec ==
    \/ ExecInvoke
    \/ ExecRespond
    \/ ExecSetApiKeys

SpecExec == InitExec /\ [][NextExec]_vars

----------------------------------------------------------------------------
(* The service functions alone: researchTopicForPrompt,
   generateInfographicImage and editInfographicImage are called with inputs
   drawn from the sets below and the provider answers with every response of
   OpsResponses; the exchange is recorded. *)

\* Texts the model may write after "FACTS:", after "ARTICLE:" and after
\* "IMAGE_PROMPT:".
FactsBodies ==
    { <<>>,
      <<" ">>,
      <<"\n", "-", " ", "a", "\n", "-", " ", "b", "\n">>,
      <<"\n", "-", " ", "a", "\n", " ", "-", " ", "b", "\n">>,
      <<" ", "a", "\n", "\n", "-", "\n", "b">>,
      <<"\n", "1", "\n", "2", "\n", "3", "\n", "4", "\n", "5", "\n", "6", "\n">>,
      <<"\n", "-", "\n", "1", "\n", "2", "\n", "3", "\n", "4", "\n", "5", "\n", "6">> }
ArticleBodies ==
    { <<>>,
      <<" ", "T", "\n", "\n", "b", " ", "\n">>,
      <<"\n", "A", "1", "\n">> }
PromptBodies ==
    { <<>>,
      <<" ", "\n">>,
      <<" ", "P", " ", "q", "\n">>,
      <<"\n", "P", "1">> }

\* The sections of a model text, each absent or a header and a body.
FactsSections ==
    { <<>> } \cup { header \o body :
                      header \in { FACTS, <<"f", "a", "c", "t", "s", ":">> },
                      body \in FactsBodies }
ArticleSections == { <<>> } \cup { ARTICLE \o body : body \in ArticleBodies }
PromptSections == { <<>> } \cup { IMAGE_PROMPT \o body : body \in PromptBodies }

\* Model texts: the sections in the order asked for or in the opposite
\* order, after nothing or after a line of other text.
ModelTexts ==
    { lead \o f \o a \o p : lead \in { <<>>, <<"x", "\n">> },
        f \in FactsSections, a \in ArticleSections, p \in PromptSections }
    \cup { p \o a \o f :
        f \in FactsSections, a \in ArticleSections, p \in PromptSections }

\* The grounding chunks of a response: with or without a web reference, a
\* uri and a title; a field may also be the empty string.
Chunks ==
    { NoWebChunk,
      Chunk(Field(<<"u">>), Field(<<>>)),
      Chunk(Field(<<"u">>), NoField),
      Chunk(NoField, Field(<<"t">>)),
      Chunk(Field(<<"u">>), Field(<<"t">>)),
      Chunk(Field(<<"u">>), Field(<<"s">>)),
      Chunk(Field(<<"w">>), Field(<<"t">>)) }

MaxChunks == 3

ChunkLists ==
    UNION { [1..n -> Chunks] : n \in 0..MaxChunks }

\* The model text the chunk lists come with.
GroundedText ==
    FACTS \o <<"\n", "-", " ", "f", "\n">> \o ARTICLE \o <<"\n", "A", "1", "\n">>
    \o IMAGE_PROMPT \o <<"\n", "P", "1">>

ResearchResponses ==
    { ResearchResponse(text, FALSE, <<>>) : text \in ModelTexts }
    \cup { ResearchResponse(GroundedText, TRUE, chunks) : chunks \in ChunkLists }

\* The content parts of an image response; a part may carry inline data
\* that is the empty string.
Parts == { TextPart, ImagePart("AA"), ImagePart("BB"), ImagePart("") }

MaxParts == 3

PartsLists ==
    UNION { [1..n -> Parts] : n \in 0..MaxParts }

\* Images handed to editInfographicImage: data URIs of several types, a raw
\* payload, and texts that only resemble a data URI.
EditUris ==
    { PngUri("AA"),
      <<"data:", "image/jpeg", ";base64,", "AA">>,
      <<"data:", "image/jpg", ";base64,", "AA">>,
      <<"data:", "image/webp", ";base64,", "AA">>,
      <<"data:", "image/svg+xml", ";base64,", "AA">>,
      <<"AA">>,
      <<" ", "data:", "image/png", ";base64,", "AA">>,
      <<"data:", "image/png", ";base64", "AA">>,
      <<"data:", "text/plain", ";base64,", "AA">> }

\* The calls made: the inputs of each service function.
OpsInputs ==
    { [op |-> "research", topic |-> <<"v">>, level |-> s.level,
       style |-> s.style, language |-> s.language] : s \in Settings }
    \cup { [op |-> "image", prompt |-> <<"P", "1">>] }
    \cup { [op |-> "edit", uri |-> uri, editPrompt |-> e] :
             uri \in EditUris, e \in EditPrompts }

\* The request a call sends.
OpsRequest(input) ==
    CASE input.op = "research" ->
           researchRequest(input.topic, input.level, input.style, input.language)
      [] input.op = "image" -> imageRequest(input.prompt)
      [] OTHER -> editRequest(input.uri, input.editPrompt)

\* What the provider may answer: a rate-limit rejection or a response.
OpsResponses(input) ==
    { Rejection("E429") }
    \cup (IF input.op = "research" THEN ResearchResponses
          ELSE { [fails |-> FALSE, err |-> NoErr, research |-> NoResearch,
                  parts |-> ps] : ps \in PartsLists })

\* The operation a service function passes to executeWithRetry, run on the
\* provider's response.
OpsOperation(input, resp) ==
    IF input.op = "research"
    THEN researchTopicForPrompt(input.topic, input.level, input.style,
                                input.language, resp)
    ELSE operation(input.op, resp)

OpsStores == { <<>>, <<KeyA, KeyB>> }

InitOps ==
    /\ customKeys \in OpsStores
    /\ savedKeys = NoItem
    /\ isLoading = FALSE
    /\ loadingStep = 0
    /\ loadingFacts = <<>>
    /\ error = NoError
    /\ showKeyModal = FALSE
    /\ imageHistory = <<>>
    /\ currentSearchResults = <<>>
    /\ calls = <<>>
    /\ lastExec = NoExec
    /\ now = 0
    /\ exchange = NoExchange

\* A service function is called: executeWithRetry runs up to the first
\* attempt's await.
OpsInvoke ==
    /\ calls = <<>>
    /\ \E input \in OpsInputs :
         calls' = <<[kind |-> "exec", op |-> input.op,
                    x |-> execStart(customKeys),
                    req |-> OpsRequest(input), input |-> input]>>
    /\ lastExec' = NoExec
    /\ exchange' = NoExchange
    /\ UNCHANGED <<customKeys, savedKeys, isLoading, loadingStep, loadingFacts,
                   error, showKeyModal, imageHistory, currentSearchResults, now>>

\* The provider answers the outstanding attempt and the operation runs on
\* the response.
OpsRespond ==
    /\ calls # <<>>
    /\ \E resp \in OpsResponses(calls[1].input) :
         LET c == calls[1]
             step == execStep(c.x, OpsOperation(c.input, resp))
         IN
         /\ exchange' = [input |-> c.input, req |-> c.req, resp |-> resp]
         /\ IF step.status = "pending"
            THEN /\ calls' = [calls EXCEPT ![1].x = step.x]
                 /\ UNCHANGED lastExec
            ELSE /\ calls' = <<>>
                 /\ lastExec' = Finished(c.op, step)
    /\ UNCHANGED <<customKeys, savedKeys, isLoading, loadingStep, loadingFacts,
                   error, showKeyModal, imageHistory, currentSearchResults, now>>

NextOps ==
    \/ OpsInvoke
    \/ OpsRespond

SpecOps == InitOps /\ [][NextOps]_vars

----------------------------------------------------------------------------
(* The credentials: startup and the saves of the key modal *)

\* The characters of the texts the credential textarea may hold.
KeyTextChars == { "a", " ", "\n" }

MaxKeyText == 5

\* Every text of at most MaxKeyText characters.
KeyTexts == UNION { [1..n -> KeyTextChars] : n \in 0..MaxKeyText }

\* The state after the mount effects, the localStorage item being absent or
\* any text saved by an earlier session.
InitKeys ==
    /\ savedKeys \in {NoItem} \cup KeyTexts
    /\ customKeys = loadKeys(savedKeys)
    /\ isLoading = FALSE
    /\ loadingStep = 0
    /\ loadingFacts = <<>>
    /\ error = NoError
    /\ showKeyModal = FALSE
    /\ imageHistory = <<>>
    /\ currentSearchResults = <<>>
    /\ calls = <<>>
    /\ lastExec = NoExec
    /\ now = 0
    /\ exchange = NoExchange

\* The user saves the text of the textarea.
SaveKeyText == \E apiKeysInput \in KeyTexts : handleSaveKeysOf(apiKeysInput)

NextKeys ==
    \/ OpenKeyModal
    \/ CloseKeyModal
    \/ SaveKeyText

SpecKeys == InitKeys /\ [][NextKeys]_vars

----------------------------------------------------------------------------
(* Claims about the executor, checked under SpecExec *)

Last(seq) == seq[Len(seq)]

\* The executor invocations awaiting an attempt, and whether one has finished.
Pending == { calls[i].x : i \in 1..Len(calls) }
HasFinished == lastExec.status # "none"

\* C1: over a non-empty store, attempt k of an invocation uses the k-th
\* credential of the list the store held when the invocation began, and a
\* successful attempt is the last one: the invocation returns its result and
\* attempts no later credential.
C1_InStoreOrderUntilSuccess ==
    /\ \A x \in Pending : Len(x.keys) > 0 =>
          /\ x.cur = x.keys[Len(x.log) + 1]
          /\ \A k \in 1..Len(x.log) : x.log[k].key = x.keys[k] /\ ~x.log[k].ok
    /\ (HasFinished /\ Len(lastExec.keys) > 0) =>
          /\ Len(lastExec.log) <= Len(lastExec.keys)
          /\ \A k \in 1..Len(lastExec.log) :
                /\ lastExec.log[k].key = lastExec.keys[k]
                /\ lastExec.log[k].ok =>
                      /\ k = Len(lastExec.log)
                      /\ lastExec.status = "return"
                      /\ lastExec.val = lastExec.log[k].val

\* An invocation over three credentials returned the result of its second
\* attempt, the first having used another credential.
C1_Witness ==
    /\ lastExec.status = "return"
    /\ Len(lastExec.keys) = 3
    /\ Len(lastExec.log) = 2
    /\ lastExec.log[1].key # lastExec.log[2].key

\* Every attempt of the finished invocation failed with a retryable failure.
AllRetryable(log) ==
    \A k \in 1..Len(log) : ~log[k].ok /\ isRetryable(log[k].err)

\* C2: when the store holds N >= 1 credentials and every attempt fails with a
\* retryable failure, the invocation makes exactly N attempts and throws the
\* failure of the N-th attempt.
C2_AllRetryableThrowsLast ==
    (HasFinished /\ Len(lastExec.keys) >= 1 /\ AllRetryable(lastExec.log)) =>
        /\ Len(lastExec.log) = Len(lastExec.keys)
        /\ lastExec.status = "throw"
        /\ lastExec.err = Last(lastExec.log).err

\* Three credentials were exhausted by retryable failures, the last failure
\* differing from the earlier ones.
C2_Witness ==
    /\ HasFinished
    /\ Len(lastExec.keys) = 3
    /\ Len(lastExec.log) = 3
    /\ AllRetryable(lastExec.log)
    /\ lastExec.log[1].err # lastExec.log[3].err
    /\ lastExec.log[2].err # lastExec.log[3].err

\* C3: when attempt k fails with a non-retryable failure (the attempts before
\* it having failed with retryable ones), the invocation makes exactly k
\* attempts and throws the k-th failure; no invocation awaits a further
\* attempt after a non-retryable failure.
C3_NonRetryableStops ==
    /\ \A x \in Pending : Len(x.keys) > 0 =>
          \A k \in 1..Len(x.log) : isRetryable(x.log[k].err)
    /\ (HasFinished /\ Len(lastExec.keys) > 0) =>
          \A k \in 1..Len(lastExec.log) :
              (~lastExec.log[k].ok /\ ~isRetryable(lastExec.log[k].err)) =>
                  /\ Len(lastExec.log) = k
                  /\ \A j \in 1..(k - 1) : isRetryable(lastExec.log[j].err)
                  /\ lastExec.status = "throw"
                  /\ lastExec.err = lastExec.log[k].err

\* The second of three credentials failed with a non-retryable failure.
C3_Witness ==
    /\ lastExec.status = "throw"
    /\ Len(lastExec.keys) = 3
    /\ Len(lastExec.log) = 2
    /\ isRetryable(lastExec.log[1].err)
    /\ ~isRetryable(lastExec.log[2].err)

\* C4: over a non-empty store an invocation never makes more attempts than
\* the store has credentials, at most one attempt succeeds and it is the last
\* one made, and the invocation ends in exactly one outcome: a returned
\* result (that of the successful attempt) or a thrown failure.
C4_BoundedAttemptsOneOutcome ==
    /\ \A x \in Pending : Len(x.keys) > 0 =>
          /\ Len(x.log) + 1 <= Len(x.keys)
          /\ \A k \in 1..Len(x.log) : ~x.log[k].ok
    /\ (HasFinished /\ Len(lastExec.keys) > 0) =>
          /\ Len(lastExec.log) >= 1
          /\ Len(lastExec.log) <= Len(lastExec.keys)
          /\ \A k \in 1..(Len(lastExec.log) - 1) : ~lastExec.log[k].ok
          /\ lastExec.status \in {"return", "throw"}
          /\ lastExec.status = "return" <=> Last(lastExec.log).ok
          /\ lastExec.status = "return" =>
                lastExec.err = NoErr /\ lastExec.val = Last(lastExec.log).val
          /\ lastExec.status = "throw" =>
                lastExec.err # NoErr /\ lastExec.val = NoVal

\* The last of three credentials succeeded after two failures.
C4_Witness ==
    /\ lastExec.status = "return"
    /\ Len(lastExec.keys) = 3
    /\ Len(lastExec.log) = 3

\* C5: with an empty store the operation runs exactly once, with the default
\* credential, and a failure of that attempt, retryable or not, is thrown
\* unchanged.
C5_EmptyStoreRunsOnce ==
    /\ \A x \in Pending : Len(x.keys) = 0 =>
          x.log = <<>> /\ x.cur = EnvKey
    /\ (HasFinished /\ Len(lastExec.keys) = 0) =>
          /\ Len(lastExec.log) = 1
          /\ lastExec.log[1].key = EnvKey
          /\ ~lastExec.log[1].ok =>
                lastExec.status = "throw" /\ lastExec.err = lastExec.log[1].err
          /\ lastExec.log[1].ok =>
                lastExec.status = "return" /\ lastExec.val = lastExec.log[1].val

\* The single attempt over the empty store failed with a retryable failure.
C5_Witness ==
    /\ HasFinished
    /\ Len(lastExec.keys) = 0
    /\ Len(lastExec.log) = 1
    /\ lastExec.log[1].err = "E429"
    /\ lastExec.status = "throw"

\* The failures the documentation and the specification call recoverable:
\* 429, 403, QuotaExceeded, permission denied, resource exhausted.
RecoverableErrors ==
    { "E429", "E403", "EQuotaExceeded", "EPERMISSION", "ERESOURCE" }

\* C6: a failed attempt whose message carries 429, 403, QuotaExceeded, a
\* permission-denied or a resource-exhausted indication is retryable: while
\* credentials remain, the invocation does not end with that failure.
C6_RecoverableRotates ==
    (HasFinished /\ Len(lastExec.log) < Len(lastExec.keys)) =>
        ~(/\ ~Last(lastExec.log).ok
          /\ Last(lastExec.log).err \in RecoverableErrors)

----------------------------------------------------------------------------
(* Claims about the controller, checked under Spec *)

\* C7: at most one orchestration is in flight, and one is in flight exactly
\* while the busy flag is set: no submit and no edit starts a call then.
C7_OneOrchestrationInFlight ==
    /\ Len(calls) <= 1
    /\ isLoading <=> Len(calls) = 1

\* A call is in flight while History holds an image that could be edited.
C7_Witness ==
    /\ isLoading
    /\ Len(calls) = 1
    /\ Len(imageHistory) > 0

\* A generate or an edit completes successfully in this step.
CompletesOk ==
    /\ Len(calls') < Len(calls)
    /\ lastExec'.status = "return"

\* A generate or an edit fails in this step.
CompletesFailed ==
    /\ Len(calls') < Len(calls)
    /\ lastExec'.status = "throw"

\* C8: when a generate or an edit completes successfully, History becomes the
\* new entry followed by the entries History held just before the completion,
\* in the same order.
C8_CompletionKeepsHistory ==
    [][CompletesOk => Tail(imageHistory') = imageHistory]_vars

\* C9: History gains an entry only in a step in which the image call or the
\* edit call returns, and a step in which the research call, the image call
\* or the edit call fails leaves History as it was.
C9_HistoryOnlyOnSuccess ==
    [][/\ (Len(imageHistory') > Len(imageHistory)) =>
             (CompletesOk /\ lastExec'.op \in {"image", "edit"})
       /\ (\E i \in 1..Len(imageHistory') :
              \A j \in 1..Len(imageHistory) : imageHistory'[i] # imageHistory[j]) =>
             (CompletesOk /\ lastExec'.op \in {"image", "edit"})
       /\ CompletesFailed => imageHistory' = imageHistory]_vars

\* An orchestration failed while History was not empty.
C9_Witness ==
    /\ lastExec.status = "throw"
    /\ ~isLoading
    /\ error \in {"generic", "quota", "modFailed", "accessDenied"}
    /\ Len(imageHistory) > 0

\* C10: restoring the entry at position n > 1 makes History that entry
\* followed by the other entries in their previous order.
C10_RestoreMovesToHead ==
    [][restoreImage =>
         \E n \in 2..Len(imageHistory) :
             imageHistory' = <<imageHistory[n]>> \o Remove(imageHistory, n)]_vars

\* The oldest of three entries was restored from the last position.
C10_Witness ==
    /\ Len(imageHistory) = 3
    /\ imageHistory[1].timestamp < imageHistory[3].timestamp
    /\ imageHistory[3].timestamp < imageHistory[2].timestamp

\* C11: the entries of History have pairwise distinct ids, in every state:
\* after every creation of an entry and after every restore.
C11_DistinctIds ==
    \A i, j \in 1..Len(imageHistory) :
        imageHistory[i].id = imageHistory[j].id => i = j

\* History holds two entries, the older of which was restored to the head.
C11_Witness ==
    /\ Len(imageHistory) = 2
    /\ imageHistory[1].timestamp < imageHistory[2].timestamp

\* C12: an entry of History is never changed and never removed: every entry
\* History holds before a step (a generate, an edit, a restore, a failure) is
\* an entry of History after it, with all its fields.
C12_EntriesPersist ==
    [][\A i \in 1..Len(imageHistory) :
          \E j \in 1..Len(imageHistory') : imageHistory'[j] = imageHistory[i]]_vars

\* An entry was generated, edited, restored over the edit and edited again:
\* the three entries are all in History.
C12_Witness ==
    /\ Len(imageHistory) = 3
    /\ imageHistory[3].timestamp < imageHistory[1].timestamp
    /\ imageHistory[2].timestamp < imageHistory[3].timestamp

----------------------------------------------------------------------------
(* The credential store, checked under SpecExec *)

\* The entries of a list that have a character other than white space, in
\* the order of the list.
RECURSIVE NonBlankEntries(_)
NonBlankEntries(keys) ==
    IF keys = <<>> THEN <<>>
    ELSE LET key == Head(keys)
             rest == NonBlankEntries(Tail(keys))
         IN  IF \A i \in 1..Len(key) : key[i] \in {" ", "\n"}
             THEN rest
             ELSE <<key>> \o rest

\* C13: a setApiKeys(keys) step leaves the store equal to the non-blank
\* entries of keys in their order, whatever the store held before, and no
\* other step changes the store; the store never holds a blank entry; an
\* invocation begun over the store left empty by a list of blank entries
\* attempts with the default credential.
C13_StoreIsLastListFiltered ==
    /\ [](\A k \in 1..Len(customKeys) :
             \E i \in 1..Len(customKeys[k]) :
                 customKeys[k][i] \notin {" ", "\n"})
    /\ [][/\ \A keys \in KeyLists :
                ExecSetApiKeysOf(keys) => customKeys' = NonBlankEntries(keys)
          /\ customKeys' # customKeys =>
                \E keys \in KeyLists : ExecSetApiKeysOf(keys)
          /\ (ExecInvoke /\ customKeys = <<>>) =>
                calls'[1].x.keys = <<>> /\ calls'[1].x.cur = EnvKey]_vars

\* The store holds the three credentials of a list of four entries, one of
\* them blank, after an invocation over an earlier store has finished.
C13_Witness ==
    /\ customKeys = <<KeyA, KeyB, KeyC>>
    /\ HasFinished
    /\ Len(lastExec.keys) = 1

----------------------------------------------------------------------------
(* Sequencing of the attempts, checked under SpecExec *)

\* The attempts an invocation has started: the single one of the empty
\* store, otherwise one for every key the loop has reached.
AttemptsStarted(x) == IF Len(x.keys) = 0 THEN 1 ELSE x.idx

\* C14: an invocation that has not finished has exactly one attempt
\* outstanding, every attempt before it having ended in a failure, and the
\* attempt with the next credential starts in the step in which the
\* outstanding attempt fails, never earlier.
C14_AttemptsSequential ==
    /\ [](\A x \in Pending :
             /\ AttemptsStarted(x) - Len(x.log) = 1
             /\ \A k \in 1..Len(x.log) : ~x.log[k].ok)
    /\ [][\A i \in 1..Len(calls) :
             (i <= Len(calls') /\ calls'[i].x.idx # calls[i].x.idx) =>
                 /\ calls'[i].x.idx = calls[i].x.idx + 1
                 /\ Len(calls'[i].x.log) = Len(calls[i].x.log) + 1
                 /\ ~Last(calls'[i].x.log).ok
                 /\ Last(calls'[i].x.log).key = calls[i].x.cur]_vars

\* The attempt with the third credential is outstanding after the attempts
\* with the first and the second failed.
C14_Witness ==
    \E x \in Pending :
        /\ Len(x.keys) = 3
        /\ x.idx = 3
        /\ Len(x.log) = 2
        /\ x.cur = x.keys[3]

----------------------------------------------------------------------------
(* Failures reported by the controller, checked under Spec *)

\* C15: when a generate or an edit fails because every credential of a
\* non-empty store failed with a retryable failure, the controller reports
\* the quota or the access-denied category and opens the credential dialog;
\* it does not report the generic generation or modification failure.
C15_ExhaustionReportedAsCredential ==
    [][(/\ CompletesFailed
        /\ Len(lastExec'.keys) >= 1
        /\ Len(lastExec'.log) = Len(lastExec'.keys)
        /\ AllRetryable(lastExec'.log)) =>
           /\ error' \in {"quota", "accessDenied"}
           /\ showKeyModal']_vars

\* C16: when the image call of a generate fails after its research call
\* returned, the state of the controller after the failure holds nothing the
\* research produced: neither its facts nor its search results.
C16_FailedGenerateLeavesNoResearch ==
    [][(CompletesFailed /\ lastExec'.op = "image") =>
          /\ loadingFacts' = <<>>
          /\ currentSearchResults' = <<>>
          /\ imageHistory' = imageHistory]_vars

----------------------------------------------------------------------------
(* Progress of an orchestration, checked under SpecLive *)

\* C17: with a provider that answers every attempt, every state in which a
\* generate or an edit is in progress (the busy flag is set) is followed by a
\* state in which no call is in flight, the busy flag is cleared and the
\* loading step is 0, so that a submit is accepted; the run may instead end
\* at the clock bound, where the provider of the model answers no more.
C17_BusyEventuallyCleared ==
    isLoading ~> \/ (~isLoading /\ loadingStep = 0 /\ calls = <<>>
                       /\ ENABLED handleGenerate)
                 \/ now = MaxClock

\* An edit has failed on every credential and the controller accepts
\* submissions again.
C17_Witness ==
    /\ ~isLoading
    /\ loadingStep = 0
    /\ lastExec.op = "edit"
    /\ lastExec.status = "throw"
    /\ error \in {"modFailed", "accessDenied"}

----------------------------------------------------------------------------
(* Order of the provider calls, checked under Spec *)

\* C18: the step in which a generate or an edit fails leaves no call in
\* flight, and a call comes into flight only in a step of handleGenerate or
\* of handleEdit, the handlers of the user's submit and edit: between a
\* failure and the next such step no provider attempt is outstanding.
C18_NoRetryAfterFailure ==
    [][/\ (GenerateThrows \/ EditThrows) => calls' = <<>>
       /\ (lastExec' # lastExec /\ lastExec'.status = "throw") => calls' = <<>>
       /\ (Len(calls') > Len(calls)) => (handleGenerate \/ handleEdit)
       /\ (calls = <<>>) => now' = now]_vars

\* A generate failed after rotating through two credentials; no call is in
\* flight.
C18_Witness ==
    /\ lastExec.status = "throw"
    /\ lastExec.op \in {"research", "image"}
    /\ Len(lastExec.log) = 2
    /\ calls = <<>>
    /\ ~isLoading

\* C19: a generate begins with the research call; its image call comes into
\* flight only in the step in which its research call returns, with the
\* imagePrompt of the returned result as the text of its request; the step
\* in which the research call fails ends the generate with no image call.
C19_ResearchBeforeImage ==
    /\ [](\A i \in 1..Len(calls) :
             /\ (calls[i].kind = "generate") => calls[i].op \in {"research", "image"}
             /\ (calls[i].op = "research") => calls[i].research = NoResearch
             /\ (calls[i].op = "image") =>
                   /\ calls[i].research \in ResearchResults
                   /\ calls[i].req.text = calls[i].research.imagePrompt
                   /\ calls[i].req.data = NoData)
    /\ [][/\ \A i \in 1..Len(calls') :
                (calls'[i].op = "image" /\ (i > Len(calls) \/ calls[i].op # "image")) =>
                    /\ i <= Len(calls)
                    /\ calls[i].op = "research"
                    /\ lastExec'.op = "research"
                    /\ lastExec'.status = "return"
                    /\ calls'[i].research = lastExec'.val.research
                    /\ calls'[i].req.text = lastExec'.val.research.imagePrompt
          /\ (CompletesFailed /\ lastExec'.op = "research") => calls' = <<>>]_vars

\* The image call of a generate is in flight with the prompt of the second
\* research result, after the research call rotated once.
C19_Witness ==
    /\ Len(calls) = 1
    /\ calls[1].op = "image"
    /\ calls[1].research.imagePrompt = <<"P", "2">>
    /\ calls[1].req.text = <<"P", "2">>
    /\ lastExec.op = "research"
    /\ Len(lastExec.log) = 2

\* C20: an edit is invoked on the head of History and sends that entry's
\* image data; the entry a successful edit creates has the level, style,
\* language and articleContent of that entry, the parent, and the edit
\* instruction as its prompt.
C20_EditInheritsFromParent ==
    [][/\ (Len(calls') > Len(calls) /\ Last(calls').kind = "edit") =>
             /\ Len(imageHistory) > 0
             /\ Last(calls').imageHistory = imageHistory
             /\ Last(calls').req.data = <<imageHistory[1].data[4]>>
             /\ Last(calls').req.text \in EditPrompts
             /\ Last(calls').prompt = Last(calls').req.text
       /\ (CompletesOk /\ lastExec'.op = "edit") =>
             LET parent == calls[1].imageHistory[1]
                 entry == imageHistory'[1]
             IN  /\ Len(calls) = 1
                 /\ entry.level = parent.level
                 /\ entry.style = parent.style
                 /\ entry.language = parent.language
                 /\ entry.articleContent = parent.articleContent
                 /\ entry.prompt = calls[1].prompt
                 /\ entry.id # parent.id
                 /\ entry.data = lastExec'.val.data]_vars

\* The head of History is an edit of an entry generated with the Expert
\* level, the Sketch style and the English language.
C20_Witness ==
    /\ Len(imageHistory) >= 2
    /\ imageHistory[1].prompt \in EditPrompts
    /\ imageHistory[1].level = "Expert"
    /\ imageHistory[1].style = "Sketch"
    /\ imageHistory[1].language = "English"
    /\ imageHistory[1].articleContent = <<"A", "2">>
    /\ lastExec.op = "edit"

----------------------------------------------------------------------------
(* Claims about the service functions, checked under SpecOps *)

\* C29: over a non-empty store the failure "All API keys failed." is never
\* thrown: an invocation awaiting a further attempt has recorded the failure
\* of its latest attempt, and an invocation that throws, after its last
\* credential or earlier, throws the failure of its latest attempt.
C29_GenericFailureNeverThrown ==
    /\ \A x \in Pending : (Len(x.keys) >= 1 /\ Len(x.log) >= 1) =>
          /\ x.lastError # NoErr
          /\ x.lastError = Last(x.log).err
    /\ (HasFinished /\ Len(lastExec.keys) >= 1 /\ lastExec.status = "throw") =>
          /\ lastExec.err # "EAllKeys"
          /\ lastExec.err # NoErr
          /\ Len(lastExec.log) >= 1
          /\ lastExec.err = Last(lastExec.log).err

\* The rotation loop ran out of credentials: both credentials of the store
\* failed with retryable failures.
C29_Witness ==
    /\ lastExec.status = "throw"
    /\ Len(lastExec.keys) = 2
    /\ Len(lastExec.log) = 2
    /\ AllRetryable(lastExec.log)
    /\ lastExec.log[1].err # lastExec.log[2].err

\* The rotations an invocation has performed: the advances from a failed
\* credential to the next one, one fewer than the attempts begun.
Rotations(attemptsBegun) == attemptsBegun - 1

\* C32: over a non-empty store an invocation has emitted as many notices as
\* it has performed rotations, both while it awaits an attempt and when it
\* has finished; its last attempt, a success or a failure that ends it, adds
\* none.
C32_NoticePerRotation ==
    /\ \A x \in Pending : Len(x.keys) >= 1 =>
          x.notices = Rotations(Len(x.log) + 1)
    /\ (HasFinished /\ Len(lastExec.keys) >= 1) =>
          lastExec.notices = Rotations(Len(lastExec.log))

\* C36: over a non-empty store a failure without a message ends the
\* invocation: no invocation awaits a further attempt after such a failure,
\* and a finished invocation that met one made no attempt after it and threw
\* that failure.
C36_NoMessageStops ==
    /\ \A x \in Pending : Len(x.keys) >= 1 =>
          \A k \in 1..Len(x.log) : MessageOf(x.log[k].err).has
    /\ (HasFinished /\ Len(lastExec.keys) >= 1) =>
          \A k \in 1..Len(lastExec.log) :
              (~lastExec.log[k].ok /\ ~MessageOf(lastExec.log[k].err).has) =>
                  /\ k = Len(lastExec.log)
                  /\ lastExec.status = "throw"
                  /\ lastExec.err = lastExec.log[k].err
                  /\ lastExec.notices = k - 1

\* The second of three credentials failed with a failure that has no message,
\* after a rotation: the third credential was not tried.
C36_Witness ==
    /\ lastExec.status = "throw"
    /\ Len(lastExec.keys) = 3
    /\ Len(lastExec.log) = 2
    /\ MessageOf(lastExec.log[1].err).has
    /\ ~MessageOf(lastExec.log[2].err).has
    /\ lastExec.err = lastExec.log[2].err

\* The research call has returned: the result and the model text it was
\* parsed from.
ResearchReturned ==
    /\ lastExec.op = "research"
    /\ lastExec.status = "return"
Result == lastExec.val.research
ModelText == exchange.resp.text

\* C21: the imagePrompt of every research result is non-empty, whatever the
\* model text.
C21_ImagePromptNonEmpty ==
    ResearchReturned => Len(Result.imagePrompt) > 0

\* The positions at which the literal p occurs in s, as written.
Occurrences(s, p) ==
    { i \in 1..Len(s) : i + Len(p) - 1 <= Len(s) /\ SubSeq(s, i, i + Len(p) - 1) = p }

\* s without the white space at its two ends.
Trimmed(s) ==
    LET inked == { i \in 1..Len(s) : s[i] \notin {" ", "\n"} } IN
    IF inked = {} THEN <<>>
    ELSE SubSeq(s, CHOOSE i \in inked : \A j \in inked : i <= j,
                   CHOOSE i \in inked : \A j \in inked : j <= i)

\* The text holds each of the three headers once, FACTS: before ARTICLE:
\* before IMAGE_PROMPT:.
HeadersInOrder(text) ==
    /\ Cardinality(Occurrences(text, FACTS)) = 1
    /\ Cardinality(Occurrences(text, ARTICLE)) = 1
    /\ Cardinality(Occurrences(text, IMAGE_PROMPT)) = 1
    /\ \A f \in Occurrences(text, FACTS), a \in Occurrences(text, ARTICLE),
          p \in Occurrences(text, IMAGE_PROMPT) : f < a /\ a < p

\* The text between the end of header and position end, trimmed.
Between(text, header, end) ==
    LET h == CHOOSE i \in Occurrences(text, header) : TRUE IN
    Trimmed(SubSeq(text, h + Len(header), end - 1))

\* C22: for a model text with the three headers in order, articleContent is
\* the trimmed text between ARTICLE: and IMAGE_PROMPT:, imagePrompt is the
\* trimmed text after IMAGE_PROMPT:, the facts are taken from the lines of
\* the trimmed text between FACTS: and ARTICLE:, and no fact begins with
\* the list marker "-".
C22_SectionsRecovered ==
    (ResearchReturned /\ HeadersInOrder(ModelText)) =>
        LET a == CHOOSE i \in Occurrences(ModelText, ARTICLE) : TRUE
            p == CHOOSE i \in Occurrences(ModelText, IMAGE_PROMPT) : TRUE
            lines == SplitLines(Between(ModelText, FACTS, a))
        IN  /\ Result.articleContent = Between(ModelText, ARTICLE, p)
            /\ Result.imagePrompt = Between(ModelText, IMAGE_PROMPT, Len(ModelText) + 1)
            /\ \A k \in 1..Len(Result.facts) :
                  /\ \E j \in 1..Len(lines) : \E n \in 0..Len(lines[j]) :
                        Result.facts[k] = Trimmed(SubSeq(lines[j], n + 1, Len(lines[j])))
                  /\ Result.facts[k][1] # "-"

\* The header occurs nowhere in the text, in no case of its letters.
Absent(text, header) ==
    \A i \in 1..Len(text) : ~MatchesAt(text, i, header)

\* C23: every response that is not a rejection, the one with the empty
\* model text included, makes the research call return a result; in it a
\* section whose header is absent from the model text has its default,
\* whatever the other sections are: no facts, the placeholder article, the
\* synthesized prompt, which contains the topic.
C23_DefaultsPerSection ==
    (exchange.input.op = "research" /\ ~exchange.resp.fails) =>
        /\ ResearchReturned
        /\ calls = <<>>
        /\ Absent(ModelText, FACTS) => Result.facts = <<>>
        /\ Absent(ModelText, ARTICLE) =>
              Result.articleContent = <<"Conteúdo explicativo não gerado.">>
        /\ Absent(ModelText, IMAGE_PROMPT) =>
              /\ Result.imagePrompt[1] = "Create a detailed infographic about "
              /\ SubSeq(Result.imagePrompt, 2, 1 + Len(exchange.input.topic))
                    = exchange.input.topic
              /\ Len(Result.imagePrompt) > 1 + Len(exchange.input.topic)

\* The research call returned on the empty model text with the three
\* defaults.
C23_Witness ==
    /\ ResearchReturned
    /\ ModelText = <<>>
    /\ Result.facts = <<>>
    /\ Result.articleContent = ArticlePlaceholder
    /\ Includes(Result.imagePrompt, exchange.input.topic)

\* The lines of the FACTS section of the model text: the text after the
\* header up to the next header or the end.
SectionLines ==
    IF factsMatch(ModelText).matched
    THEN SplitLines(factsMatch(ModelText).group)
    ELSE <<>>

\* A line has a character that is not white space.
Inked(line) == \E i \in 1..Len(line) : line[i] \notin {" ", "\n"}

\* What remains of a line without a "-" in its first place and without the
\* white space at its ends.
Entry(line) ==
    Trimmed(IF Len(line) >= 1 /\ line[1] = "-" THEN Tail(line) ELSE line)
HasEntry(line) == Entry(line) # <<>>

\* C24 as stated: facts holds at most 5 entries, none blank, taken in order
\* from the non-blank lines of the FACTS section; when the section has more
\* than 5 non-blank lines, the entries are those of its first 5 non-blank
\* lines.
C24_FirstFiveNonBlankLines ==
    ResearchReturned =>
        LET nonBlank == SelectSeq(SectionLines, Inked) IN
        /\ Len(Result.facts) <= 5
        /\ \A k \in 1..Len(Result.facts) : Inked(Result.facts[k])
        /\ Len(nonBlank) > 5 =>
              /\ Len(Result.facts) = 5
              /\ \A k \in 1..5 : Result.facts[k] = Entry(nonBlank[k])

\* C24, amended: facts holds at most 5 entries, none blank; they are, in
\* order, the entries of the lines of the FACTS section that are not blank
\* once their marker is removed, the first 5 of them when there are more.
C24_FirstFiveEntries ==
    ResearchReturned =>
        LET usable == SelectSeq(SectionLines, HasEntry) IN
        /\ Len(Result.facts) <= 5
        /\ Len(Result.facts) = (IF Len(usable) > 5 THEN 5 ELSE Len(usable))
        /\ \A k \in 1..Len(Result.facts) :
              /\ Inked(Result.facts[k])
              /\ Result.facts[k] = Entry(usable[k])

\* The FACTS section has seven non-blank lines, the first a marker with
\* nothing after it: the five facts are those of the second to the sixth.
C24_Witness ==
    /\ ResearchReturned
    /\ Len(SelectSeq(SectionLines, Inked)) = 7
    /\ Len(SelectSeq(SectionLines, HasEntry)) = 6
    /\ Len(Result.facts) = 5
    /\ Result.facts[1] = <<"1">>
    /\ Result.facts[5] = <<"5">>

\* The grounding references of the response that carry both a title and a
\* uri (a field that is the empty string counts as missing), in their order.
Carried(chunk) ==
    /\ chunk.web
    /\ chunk.uri # NoField /\ chunk.uri # Field(<<>>)
    /\ chunk.title # NoField /\ chunk.title # Field(<<>>)
References ==
    IF exchange.resp.grounded THEN SelectSeq(exchange.resp.chunks, Carried)
    ELSE <<>>

\* The first and the last reference with the given uri.
FirstWith(uri) ==
    CHOOSE i \in 1..Len(References) :
        /\ References[i].uri.text = uri
        /\ \A j \in 1..(i - 1) : References[j].uri.text # uri
LastWith(uri) ==
    CHOOSE i \in 1..Len(References) :
        /\ References[i].uri.text = uri
        /\ \A j \in (i + 1)..Len(References) : References[j].uri.text # uri

\* C25: searchResults holds one entry for every uri of the references that
\* carry a title and a uri and none for any other; no two entries have the
\* same uri; the entries stand in the order of the first occurrences of
\* their uris; each carries the title of the last reference with its uri.
C25_OneEntryPerUri ==
    ResearchReturned =>
        LET R == Result.searchResults IN
        /\ { R[k].url : k \in 1..Len(R) }
             = { References[i].uri.text : i \in 1..Len(References) }
        /\ \A k, n \in 1..Len(R) : R[k].url = R[n].url => k = n
        /\ \A k, n \in 1..Len(R) :
              k < n => FirstWith(R[k].url) < FirstWith(R[n].url)
        /\ \A k \in 1..Len(R) :
              R[k].title = References[LastWith(R[k].url)].title.text

\* Of three references the first and the third share their uri: the entry
\* of that uri stands first with the title of the third.
C25_Witness ==
    /\ ResearchReturned
    /\ exchange.resp.grounded
    /\ exchange.resp.chunks =
          <<Chunk(Field(<<"u">>), Field(<<"t">>)),
            Chunk(Field(<<"w">>), Field(<<"t">>)),
            Chunk(Field(<<"u">>), Field(<<"s">>))>>
    /\ Result.searchResults =
          <<[title |-> <<"s">>, url |-> <<"u">>],
            [title |-> <<"t">>, url |-> <<"w">>]>>

\* The parts of the response that carry inline image data, by position.
Carrying == { k \in 1..Len(exchange.resp.parts) :
                /\ exchange.resp.parts[k].inline
                /\ exchange.resp.parts[k].data # "" }

\* C26: when a part of the response to generate carries inline image data,
\* generate returns "data:image/png;base64," followed by the payload of the
\* first such part, whatever parts come before and after it.
C26_FirstInlinePartReturned ==
    (exchange.input.op = "image" /\ ~exchange.resp.fails /\ Carrying # {}) =>
        LET first == CHOOSE k \in Carrying : \A n \in Carrying : k <= n IN
        /\ lastExec.op = "image"
        /\ lastExec.status = "return"
        /\ lastExec.val.data =
              <<"data:", "image/png", ";base64,", exchange.resp.parts[first].data>>

\* The response holds a text part, then two image parts: the payload of
\* the first image part is returned.
C26_Witness ==
    /\ exchange.input.op = "image"
    /\ exchange.resp.parts = <<TextPart, ImagePart("BB"), ImagePart("AA")>>
    /\ lastExec.status = "return"
    /\ lastExec.val.data = <<"data:", "image/png", ";base64,", "BB">>

\* The input of edit has the form data:image/<type>;base64,<payload>.
DataUriTypes ==
    { "image/png", "image/jpeg", "image/jpg", "image/webp", "image/svg+xml" }
IsImageDataUri(uri) ==
    /\ Len(uri) = 4
    /\ uri[1] = "data:"
    /\ uri[2] \in DataUriTypes
    /\ uri[3] = ";base64,"

\* C27: for an input data:image/<type>;base64,<payload> the request of edit
\* carries the mime type image/<type> and the payload alone; for any other
\* input it carries the input unchanged and the mime type image/png.
C27_EditSendsPayloadAndType ==
    (exchange.input.op = "edit") =>
        LET uri == exchange.input.uri IN
        IF IsImageDataUri(uri)
        THEN /\ exchange.req.mimeType = uri[2]
             /\ exchange.req.data = <<uri[4]>>
        ELSE /\ exchange.req.mimeType = "image/png"
             /\ exchange.req.data = uri

\* C28: a response to generate or to edit that is not a rejection and holds
\* no part with inline image data makes the operation throw its no-image
\* failure, and the invocation throws that failure in the same step, with
\* whatever credentials remain untried.
C28_NoImageEndsInvocation ==
    (/\ exchange.input.op \in {"image", "edit"}
     /\ ~exchange.resp.fails
     /\ Carrying = {}) =>
        LET failure == IF exchange.input.op = "image" THEN "EGenerate" ELSE "EEdit" IN
        /\ calls = <<>>
        /\ lastExec.status = "throw"
        /\ lastExec.err = failure
        /\ Last(lastExec.log).err = failure
        /\ \A k \in 1..(Len(lastExec.log) - 1) : lastExec.log[k].err = "E429"

\* Over a store of two credentials the first attempt of an edit was answered
\* without an image: the invocation ended after that one attempt.
C28_Witness ==
    /\ exchange.input.op = "edit"
    /\ exchange.resp.parts = <<TextPart, ImagePart("")>>
    /\ lastExec.status = "throw"
    /\ lastExec.err = "EEdit"
    /\ Len(lastExec.keys) = 2
    /\ Len(lastExec.log) = 1

----------------------------------------------------------------------------
(* The store and the invocations in flight, checked under Spec *)

\* The invocation x2 is x after one more failed attempt: same list, next
\* position, the credential of the list at that position.
Continues(x, x2) ==
    /\ x2.keys = x.keys
    /\ x2.idx = x.idx + 1
    /\ x2.idx <= Len(x.keys)
    /\ x2.cur = x.keys[x2.idx]
    /\ Len(x2.log) = Len(x.log) + 1
    /\ SubSeq(x2.log, 1, Len(x.log)) = x.log
    /\ Last(x2.log).key = x.cur

\* C30: an invocation in flight attempts the credentials of the list the
\* store held when it began, in that list's order, whatever the store holds
\* by now: a step that changes the store changes no call in flight; an
\* invocation left in flight by a step is one that was in flight unchanged,
\* or one continued on the next credential of its own list, or one begun in
\* that step over the store's list of that moment (the image call of a
\* generate begins so when its research call returns).
C30_InvocationKeepsItsList ==
    /\ [](\A x \in Pending :
            IF Len(x.keys) = 0 THEN x.cur = EnvKey
            ELSE /\ x.idx = Len(x.log) + 1
                 /\ x.cur = x.keys[x.idx]
                 /\ \A k \in 1..Len(x.log) : x.log[k].key = x.keys[k])
    /\ [][/\ customKeys' # customKeys => calls' = calls
          /\ \A j \in 1..Len(calls') :
                LET x2 == calls'[j].x IN
                \/ \E i \in 1..Len(calls) : calls[i].x = x2
                \/ \E i \in 1..Len(calls) :
                      /\ calls'[j].kind = calls[i].kind
                      /\ calls'[j].op = calls[i].op
                      /\ Continues(calls[i].x, x2)
                \/ /\ x2.keys = customKeys
                   /\ customKeys' = customKeys
                   /\ x2.log = <<>>]_vars

\* The research call of a generate ran over two credentials and used both;
\* the image call of the same generate is in flight over another list, and
\* the store has been changed again since that call began.
C30_Witness ==
    /\ Len(calls) = 1
    /\ calls[1].kind = "generate"
    /\ calls[1].op = "image"
    /\ lastExec.op = "research"
    /\ lastExec.status = "return"
    /\ calls[1].research = lastExec.val.research
    /\ Len(lastExec.keys) = 2
    /\ Len(lastExec.log) = 2
    /\ lastExec.log[2].key = lastExec.keys[2]
    /\ calls[1].x.keys # lastExec.keys
    /\ customKeys # calls[1].x.keys

----------------------------------------------------------------------------
(* The store and the persisted credentials, checked under SpecKeys *)

\* The persisted credential string, a missing item counting as the empty one.
Persisted == IF savedKeys = NoItem THEN <<>> ELSE savedKeys

\* The positions at which the lines of s start, and the line that starts at
\* position p: the characters up to the next newline or the end of s.
LineStarts(s) == {1} \cup { i + 1 : i \in { j \in 1..Len(s) : s[j] = "\n" } }
LineFrom(s, p) ==
    LET ends == { j \in p..Len(s) : s[j] = "\n" } \cup { Len(s) + 1 }
        q == CHOOSE j \in ends : \A k \in ends : j <= k
    IN  SubSeq(s, p, q - 1)
Blank(line) == \A i \in 1..Len(line) : line[i] \in {" ", "\n"}

\* C33: in every state, at startup and after every save, the store holds
\* one entry for every non-blank line of the persisted credential string,
\* equal to that line character for character, in the order of the lines; a
\* missing and an empty item give the empty store.
C33_StoreIsPersistedLines ==
    LET s == Persisted
        kept == { p \in LineStarts(s) : ~Blank(LineFrom(s, p)) }
    IN  /\ Len(customKeys) = Cardinality(kept)
        /\ \A p \in kept :
              customKeys[Cardinality({ q \in kept : q <= p })] = LineFrom(s, p)
        /\ (savedKeys = NoItem \/ savedKeys = <<>>) => customKeys = <<>>

\* The persisted string has three lines, the first of them blank: the store
\* holds the other two, which differ, in their order.
C33_Witness ==
    /\ ~showKeyModal
    /\ savedKeys = <<"\n", "a", "\n", " ", "a">>
    /\ customKeys = << <<"a">>, <<" ", "a">> >>

----------------------------------------------------------------------------
(* Validation of the topic, checked under Spec *)

\* C34: a submit whose topic is empty or holds white space only sets the
\* error to the topic-required message and changes nothing else: no call
\* comes into flight, the busy flag stays cleared, History, the current
\* search results and the loading state are as before.
C34_BlankTopicRejected ==
    [][\A topic \in Topics, selected \in Settings :
          (/\ \A i \in 1..Len(topic) : topic[i] \in {" ", "\n"}
           /\ handleGenerateOf(topic, selected)) =>
               /\ error' = "topicRequired"
               /\ calls' = calls
               /\ ~isLoading'
               /\ loadingStep' = loadingStep
               /\ loadingFacts' = loadingFacts
               /\ imageHistory' = imageHistory
               /\ currentSearchResults' = currentSearchResults
               /\ lastExec' = lastExec]_vars

\* After a generate that succeeded a blank topic was submitted: the error is
\* set, History and the search results of the generate are still there.
C34_Witness ==
    /\ error = "topicRequired"
    /\ ~isLoading
    /\ calls = <<>>
    /\ Len(imageHistory) >= 1
    /\ currentSearchResults # <<>>

----------------------------------------------------------------------------
(* The image data of History and the edit requests, checked under Spec *)

\* The data is data:image/png;base64, followed by a payload.
IsPngDataUri(data) ==
    /\ Len(data) = 4
    /\ data[1] = "data:"
    /\ data[2] = "image/png"
    /\ data[3] = ";base64,"

\* C35: the data of every History entry, of the present History and of the
\* one an orchestration in flight closed over, is a PNG data URI; every edit
\* request in flight carries the mime type image/png and, as its data, the
\* payload alone of the entry it edits; no request in flight carries the
\* mime type image/jpeg.
C35_HistoryIsPngEditsSendPng ==
    /\ \A k \in 1..Len(imageHistory) : IsPngDataUri(imageHistory[k].data)
    /\ \A i \in 1..Len(calls) :
          /\ \A k \in 1..Len(calls[i].imageHistory) :
                IsPngDataUri(calls[i].imageHistory[k].data)
          /\ calls[i].req.mimeType # "image/jpeg"
          /\ calls[i].kind = "edit" =>
                /\ calls[i].op = "edit"
                /\ calls[i].req.model = "EDIT_MODEL"
                /\ calls[i].req.mimeType = "image/png"
                /\ calls[i].req.data = <<calls[i].imageHistory[1].data[4]>>

\* An edit is in flight on an entry that was itself created by an edit.
C35_Witness ==
    /\ Len(calls) = 1
    /\ calls[1].kind = "edit"
    /\ Len(calls[1].imageHistory) >= 2
    /\ lastExec.op = "edit"
    /\ lastExec.status = "return"
    /\ calls[1].imageHistory[1].data = lastExec.val.data
    /\ calls[1].req.mimeType = "image/png"

====
